---- MODULE Spec2Model ----
(***************************************************************************)
(* Model of the useElementOnScreen hook (src/index.js): one tracker        *)
(* instance, the React lifecycle that drives its effect, the reference     *)
(* slot, and the IntersectionObservers it creates.                         *)
(*                                                                         *)
(* Representation choices:                                                 *)
(*  - an options object is a record; its field id is the object's identity *)
(*    (what the dependency list [ref, options] compares), the other fields *)
(*    are its keys, Absent standing for a key that is not present;         *)
(*  - option values are written as strings ("0.75", "0px");               *)
(*  - an observer is a record of the element it observes, the init         *)
(*    dictionary it was constructed with and whether it still observes;    *)
(*  - a ReferenceError thrown by the effect's cleanup is caught by React's *)
(*    commit phase and reported to the consumer: it is counted in errors   *)
(*    and the instance goes to phase "errored", from which React unmounts. *)
(***************************************************************************)
EXTENDS Integers, Sequences, FiniteSets

VARIABLES
    phase,          \* "rendered" (first render done, not committed), "mounted", "errored", "unmounted"
    ref_current,    \* ref.current: Null or an element
    isVisible,      \* the useState cell
    options,        \* the options object of the last committed render (effect dependency)
    observers,      \* every IntersectionObserver constructed so far, in creation order
    boundObserver,  \* index of the observer created by the effect now in force, 0 if none
    hasDestroy,     \* the effect has a cleanup function registered
    warnings,       \* number of console.warn calls
    errors,         \* number of errors thrown out of the hook's own code
    renderPending,  \* a state update has scheduled a re-render
    last,           \* history: the operation performed by the last step
    everAttached,   \* history: ref.current has held an element
    everTrue        \* history: some delivery's first record had isIntersecting = TRUE

vars == <<phase, ref_current, isVisible, options, observers, boundObserver,
          hasDestroy, warnings, errors, renderPending, last, everAttached, everTrue>>

---------------------------------------------------------------------------
(* Bounds *)
MaxWarnings == 3
MaxOptionId == 2
MaxBatch == 2

(* Program constants *)
DefaultThreshold == "0.75"

Null == "null"
Absent == "undefined"
Elements == {"e1", "e2"}
RefValues == Elements \cup {Null}

OptionIds == 1..MaxOptionId
Options == [id : OptionIds,
            root : {Absent},
            rootMargin : {Absent},
            threshold : {Absent, "0.5"},
            delay : {Absent, "100"}]

Entry == [isIntersecting : BOOLEAN]
RECURSIVE SeqsUpTo(_)
SeqsUpTo(n) ==
    IF n = 0 THEN {<<>>}
    ELSE LET shorter == SeqsUpTo(n - 1)
         IN shorter \cup {Append(s, e) : s \in {t \in shorter : Len(t) = n - 1}, e \in Entry}
Batches == SeqsUpTo(MaxBatch)

---------------------------------------------------------------------------
(* The effect's destructuring of options, and the init dictionary it hands
   to the IntersectionObserver constructor: { root, rootMargin, threshold, rest } *)
OrDefault(v, d) == IF v = Absent THEN d ELSE v

ObserverInit(opts) ==
    [root |-> OrDefault(opts.root, Null),
     rootMargin |-> OrDefault(opts.rootMargin, "0px"),
     threshold |-> OrDefault(opts.threshold, DefaultThreshold),
     rest |-> [delay |-> opts.delay]]

(* Effect setup: with an element in the slot a new observer is constructed
   and started on it; otherwise a warning is logged. *)
SetupCreatesAlways(r) == TRUE
SetupCreates(r) == r # Null

SetupObservers(obs, r, opts) ==
    IF SetupCreates(r)
    THEN Append(obs, [target |-> r, init |-> ObserverInit(opts), observing |-> TRUE])
    ELSE obs

SetupBound(obs, r) == IF SetupCreates(r) THEN Len(obs) + 1 ELSE 0

SetupWarnings(r) == IF SetupCreates(r) THEN 0 ELSE 1

(* Effect cleanup: with an element in the slot it evaluates `observer`, a
   name that is block-scoped to the setup's if-branch and so not in scope in
   the cleanup closure: a ReferenceError is thrown before unobserve is
   reached. With an empty slot a warning is logged. *)
CleanupThrowsNever(r) == FALSE
CleanupThrows(r) == r # Null

CleanupWarnings(r) == IF r # Null THEN 0 ELSE 1

(* callbackFunction: const [entry] = entries; if (entry) setIsVisible(...) else warn *)
callbackFlagLast(entries, cur) ==
    IF entries # <<>> THEN entries[Len(entries)].isIntersecting ELSE cur
callbackFlagResets(entries, cur) ==
    IF entries # <<>> THEN Head(entries).isIntersecting ELSE FALSE
callbackFlag(entries, cur) ==
    IF entries # <<>> THEN Head(entries).isIntersecting ELSE cur

callbackWarnings(entries) == IF entries # <<>> THEN 0 ELSE 1

ActiveObservers == {i \in DOMAIN observers : observers[i].observing}

Step(op, obs, entries) == [op |-> op, obs |-> obs, entries |-> entries]

---------------------------------------------------------------------------
(* State after the first render: useRef(null), useState(false), the effect
   not yet run. *)
Init ==
    /\ phase = "rendered"
    /\ ref_current = Null
    /\ isVisible = FALSE
    /\ options \in Options
    /\ observers = <<>>
    /\ boundObserver = 0
    /\ hasDestroy = FALSE
    /\ warnings = 0
    /\ errors = 0
    /\ renderPending = FALSE
    /\ last = Step("init", 0, <<>>)
    /\ everAttached = FALSE
    /\ everTrue = FALSE

(* First commit: React attaches the ref (to element e, or leaves it empty
   when the consumer rendered no element) and then runs the effect's setup. *)
Mount(e) ==
    /\ phase = "rendered"
    /\ phase' = "mounted"
    /\ ref_current' = e
    /\ observers' = SetupObservers(observers, e, options)
    /\ boundObserver' = SetupBound(observers, e)
    /\ warnings' = warnings + SetupWarnings(e)
    /\ hasDestroy' = TRUE
    /\ everAttached' = (everAttached \/ e # Null)
    /\ last' = Step("mount", 0, <<>>)
    /\ UNCHANGED <<isVisible, options, errors, renderPending, everTrue>>

(* A re-render of the consumer with options object newOpts. When its
   identity differs from the previous one the effect re-runs: cleanup of the
   old effect, then setup of the new one. A cleanup that throws is caught by
   React; whether the setup still runs afterwards depends on the React
   version (it does from React 17 on), so both are possible. *)
Rerender(newOpts) ==
    /\ phase = "mounted"
    /\ newOpts = options \/ newOpts.id # options.id
    /\ LET changed == newOpts.id # options.id
           cleanupRuns == changed /\ hasDestroy
           threw == cleanupRuns /\ CleanupThrows(ref_current)
           w1 == warnings + (IF cleanupRuns THEN CleanupWarnings(ref_current) ELSE 0)
       IN \E setupRuns \in (IF threw THEN BOOLEAN ELSE {changed}) :
            LET w2 == w1 + (IF setupRuns THEN SetupWarnings(ref_current) ELSE 0)
            IN /\ w2 <= MaxWarnings
               /\ warnings' = w2
               /\ errors' = errors + (IF threw THEN 1 ELSE 0)
               /\ phase' = (IF threw THEN "errored" ELSE "mounted")
               /\ observers' = (IF setupRuns
                                THEN SetupObservers(observers, ref_current, newOpts)
                                ELSE observers)
               /\ boundObserver' = (IF setupRuns THEN SetupBound(observers, ref_current)
                                    ELSE IF cleanupRuns THEN 0 ELSE boundObserver)
               /\ hasDestroy' = (IF setupRuns THEN TRUE
                                 ELSE IF cleanupRuns THEN FALSE ELSE hasDestroy)
    /\ options' = newOpts
    /\ renderPending' = FALSE
    /\ last' = Step(IF newOpts.id # options.id THEN "reconfigure" ELSE "render", 0, <<>>)
    /\ UNCHANGED <<ref_current, isVisible, everAttached, everTrue>>

(* The reference slot is assigned from outside the hook (React attaching or
   detaching the element, or the consumer). ref is a stable object, so the
   effect's dependency list does not see the change. *)
SetRef(e) ==
    /\ phase \in {"mounted", "errored"}
    /\ e # ref_current
    /\ ref_current' = e
    /\ everAttached' = (everAttached \/ e # Null)
    /\ last' = Step(IF e = Null THEN "detach" ELSE "attach", 0, <<>>)
    /\ UNCHANGED <<phase, isVisible, options, observers, boundObserver, hasDestroy,
                   warnings, errors, renderPending, everTrue>>

(* The platform delivers a batch of records to the callback of an observer
   that is still observing. *)
Deliver(i, entries) ==
    /\ i \in ActiveObservers
    /\ warnings + callbackWarnings(entries) <= MaxWarnings
    /\ isVisible' = callbackFlag(entries, isVisible)
    /\ warnings' = warnings + callbackWarnings(entries)
    /\ renderPending' = (renderPending \/ (phase = "mounted" /\ isVisible' # isVisible))
    /\ everTrue' = (everTrue \/ (entries # <<>> /\ Head(entries).isIntersecting))
    /\ last' = Step("deliver", i, entries)
    /\ UNCHANGED <<phase, ref_current, options, observers, boundObserver, hasDestroy,
                   errors, everAttached>>

(* Consumer teardown (or React unmounting the tree after a caught error):
   the registered cleanup runs once. *)
UnmountResetsFlag ==
    /\ phase \in {"mounted", "errored"}
    /\ phase' = "unmounted"
    /\ isVisible' = FALSE
    /\ hasDestroy' = FALSE
    /\ boundObserver' = 0
    /\ renderPending' = FALSE
    /\ last' = Step("unmount", 0, <<>>)
    /\ UNCHANGED <<ref_current, options, observers, warnings, errors,
                   everAttached, everTrue>>
Unmount ==
    /\ phase \in {"mounted", "errored"}
    /\ LET w == warnings + (IF hasDestroy THEN CleanupWarnings(ref_current) ELSE 0)
       IN /\ w <= MaxWarnings
          /\ warnings' = w
    /\ errors' = errors + (IF hasDestroy /\ CleanupThrows(ref_current) THEN 1 ELSE 0)
    /\ phase' = "unmounted"
    /\ hasDestroy' = FALSE
    /\ boundObserver' = 0
    /\ renderPending' = FALSE
    /\ last' = Step("unmount", 0, <<>>)
    /\ UNCHANGED <<ref_current, isVisible, options, observers, everAttached, everTrue>>

Next ==
    \/ \E e \in RefValues : Mount(e)
    \/ \E o \in Options : Rerender(o)
    \/ \E e \in RefValues : SetRef(e)
    \/ \E i \in DOMAIN observers, entries \in Batches : Deliver(i, entries)
    \/ Unmount

Spec == Init /\ [][Next]_vars

TypeOK ==
    /\ phase \in {"rendered", "mounted", "errored", "unmounted"}
    /\ ref_current \in RefValues
    /\ isVisible \in BOOLEAN
    /\ options \in Options
    /\ Len(observers) <= 2
    /\ boundObserver \in 0..Len(observers)
    /\ warnings \in 0..MaxWarnings
    /\ errors \in 0..2

---------------------------------------------------------------------------
(* C1: at most one observer that was created and not yet released exists
   at any time. *)
C1_AtMostOneActiveObserver == Cardinality(ActiveObservers) <= 1

(* C2: a callback delivered by an observer other than the one of the effect
   now in force (its binding ended by a configuration change or by teardown)
   never changes the visibility flag. *)
C2_StaleCallbackIgnored ==
    [][(last'.op = "deliver" /\ last'.obs # boundObserver) => isVisible' = isVisible]_vars

(* C3: a configuration change while an observer is active disconnects that
   observer, so that it is no longer observing once the new one exists. *)
C3_ReconfigureDisconnectsPrior ==
    [][(last'.op = "reconfigure" /\ ActiveObservers # {})
        => \A i \in ActiveObservers : ~observers'[i].observing]_vars

(* C4: consumer teardown with an element in the slot releases the bound
   observer; with an empty slot it releases nothing and logs exactly one
   warning. *)
C4_TeardownReleasesOnce ==
    [][(phase = "mounted" /\ phase' = "unmounted")
        => IF ref_current # Null
           THEN boundObserver # 0 => ~observers'[boundObserver].observing
           ELSE observers' = observers /\ warnings' = warnings + 1]_vars

(* C5: no sequence of lifecycle operations raises an error to the consumer. *)
C5_NoErrorRaised == errors = 0

(* C6: an observer whose binding has ended (by a configuration change or by
   teardown) has been released: only the observer of the effect in force may
   still be observing. *)
C6_EndedBindingReleased ==
    \A i \in DOMAIN observers : i # boundObserver => ~observers[i].observing

(* C7: after a delivery of a non-empty batch the flag equals isIntersecting of
   the batch's first record, whatever the further records; and the flag is
   true only if some delivery reported isIntersecting = true. *)
C7_FlagIsFirstRecord ==
    /\ (last.op = "deliver" /\ last.entries # <<>>)
          => isVisible = last.entries[1].isIntersecting
    /\ isVisible => everTrue

C7_Witness ==
    /\ last.op = "deliver"
    /\ Len(last.entries) = 2
    /\ last.entries[1].isIntersecting
    /\ ~last.entries[2].isIntersecting
    /\ isVisible

(* C8: a delivery of an empty batch leaves the flag unchanged and logs
   exactly one warning, in every state of the tracker. *)
C8_EmptyBatchWarnsOnly ==
    [][(last'.op = "deliver" /\ last'.entries = <<>>)
        => (isVisible' = isVisible /\ warnings' = warnings + 1)]_vars

C8_Witness ==
    /\ last.op = "deliver"
    /\ last.entries = <<>>
    /\ isVisible
    /\ warnings >= 1

(* C9: for every configuration, the flag is false in every state reached
   before an element has been attached to the reference slot. *)
C9_FalseBeforeAttach == ~everAttached => (isVisible = FALSE /\ observers = <<>>)

C9_Witness ==
    /\ ~everAttached
    /\ phase = "mounted"
    /\ last.op = "reconfigure"
    /\ options.threshold # Absent
    /\ warnings >= 3
    /\ ~isVisible

(* C10: only the observation callback changes the flag: mount, re-render,
   configuration change, attach, detach and teardown leave it unchanged. *)
C10_OnlyCallbackMutatesFlag ==
    [][isVisible' # isVisible => last'.op = "deliver"]_vars

C10_Witness ==
    /\ isVisible
    /\ last.op = "unmount"
    /\ everAttached

(* C11: once the slot holds an element and the consumer has rendered, the
   tracker is Observing: an active observer watches that element, also when
   the slot was empty at the first setup and the options object is unchanged. *)
C11_ObservingOnceResolved ==
    (phase = "mounted" /\ last.op = "render" /\ ref_current # Null)
        => \E i \in ActiveObservers : observers[i].target = ref_current

(* C12: whenever an observer is active, the element it observes is the
   element currently held by the reference slot. *)
C12_ObserverFollowsSlot ==
    \A i \in ActiveObservers : observers[i].target = ref_current

(* C13: the record handed to the IntersectionObserver constructor is one flat
   record: root, rootMargin and threshold (with their defaults) and every
   additional configuration field at the top level. *)
C13_InitIsFlat ==
    [][Len(observers') > Len(observers)
        => observers'[Len(observers')].init =
              [root |-> OrDefault(options'.root, Null),
               rootMargin |-> OrDefault(options'.rootMargin, "0px"),
               threshold |-> OrDefault(options'.threshold, DefaultThreshold),
               delay |-> options'.delay]]_vars

(* C14: a re-render whose configuration is unchanged by value neither tears
   down the bound observer nor creates a new one. *)
C14_SameValueRerenderKeepsObserver ==
    [][(last'.op \in {"render", "reconfigure"}
          /\ options'.root = options.root
          /\ options'.rootMargin = options.rootMargin
          /\ options'.threshold = options.threshold
          /\ options'.delay = options.delay)
        => (observers' = observers /\ boundObserver' = boundObserver)]_vars

(* C15: when the cleanup runs, the observer is released for the element it
   was started on, even if the slot has since become empty or holds another
   element. *)
C15_ReleasesCapturedTarget ==
    [][(last'.op \in {"unmount", "reconfigure"} /\ boundObserver # 0
          /\ ref_current # observers[boundObserver].target)
        => ~observers'[boundObserver].observing]_vars

(* C16: the chain flag change -> re-render -> effect re-run -> new observer
   -> initial callback does not repeat: whatever the platform delivers and
   however often the consumer re-renders, the instance constructs at most
   two observers. *)
C16_FinitelyManyObservers == Len(observers) <= 2

C16_Witness ==
    /\ Len(observers) = 2
    /\ last.op = "deliver"
    /\ last.obs = 2
    /\ isVisible
    /\ errors >= 1
====
